---------------------------- MODULE Spec2Model ----------------------------
(***************************************************************************)
(* Two-coin Expectation-Maximisation, NB16_CXIII-EM_coin_toss.ipynb.       *)
(*                                                                         *)
(* The model follows the second code cell of the notebook (lines 256-359): *)
(* data generation, the closed-form MLE, the loop over random restarts     *)
(* with the EM while-loop inside it, and the two cells that build and sort *)
(* the result table (lines 368-409).  The EM while-loop of the first code  *)
(* cell (lines 162-193) is textually the same as lines 318-349.            *)
(*                                                                         *)
(* Numbers.  A float64 is modelled as a rational [n |-> , d |-> ] in       *)
(* lowest terms; d = 0 encodes the IEEE special values: 0/0 is NaN and     *)
(* 1/0 is +inf.  Arithmetic inside one statement is exact; a value that    *)
(* is stored as a coin bias (theta_A, pA_heads[j+1], ...) is rounded to a  *)
(* grid of Scale steps by float64, which never rounds a value strictly     *)
(* between 0 and 1 onto 0 or 1.                                            *)
(***************************************************************************)
EXTENDS Integers, Sequences, FiniteSets, TLC

\* ------------------------------------------------------------------ bounds
\* each experiment contains num_coin_toss tosses (10 in the notebook)
num_coin_toss == 2
\* number of experiments (5 in the notebook)
num_exp == 2
\* number of random restarts, range(20) in the notebook
num_restarts == 2
\* length of the trace arrays pA_heads / pB_heads, np.zeros(100)
TraceLen == 3
\* resolution of the grid that stands for float64 precision
Scale == 8

\* ------------------------------------------------------ float64 arithmetic
NaN == [n |-> 0, d |-> 0]
Inf == [n |-> 1, d |-> 0]
Zero == [n |-> 0, d |-> 1]
One == [n |-> 1, d |-> 1]

IsNaN(x) == x.d = 0 /\ x.n = 0
IsInf(x) == x.d = 0 /\ x.n # 0
IsFinite(x) == x.d # 0

Abs(i) == IF i < 0 THEN -i ELSE i

RECURSIVE Gcd(_, _)
Gcd(a, b) == IF b = 0 THEN a ELSE Gcd(b, a % b)

\* the rational p/q (q > 0) in lowest terms
Rat(p, q) ==
    LET g == Gcd(Abs(p), q) IN [n |-> p \div g, d |-> q \div g]

RAdd(a, b) ==
    IF IsNaN(a) \/ IsNaN(b) THEN NaN
    ELSE IF IsInf(a) \/ IsInf(b) THEN Inf
    ELSE LET g == Gcd(a.d, b.d)
             l == (a.d \div g) * b.d
         IN  Rat(a.n * (l \div a.d) + b.n * (l \div b.d), l)

RNeg(a) == [n |-> -a.n, d |-> a.d]

RSub(a, b) ==
    IF IsNaN(a) \/ IsNaN(b) \/ (IsInf(a) /\ IsInf(b)) THEN NaN
    ELSE IF IsInf(a) THEN Inf
    ELSE IF IsInf(b) THEN Inf
    ELSE RAdd(a, RNeg(b))

RMul(a, b) ==
    IF IsNaN(a) \/ IsNaN(b) THEN NaN
    ELSE IF IsInf(a) \/ IsInf(b)
         THEN IF a.n = 0 \/ b.n = 0 THEN NaN ELSE Inf
    ELSE LET g1 == Gcd(Abs(a.n), b.d)
             g2 == Gcd(Abs(b.n), a.d)
         IN  [n |-> (a.n \div g1) * (b.n \div g2), d |-> (a.d \div g2) * (b.d \div g1)]

\* numpy float64 division: 0/0 is nan and x/0 is inf, with a RuntimeWarning
\* and no exception.  Operands are non-negative wherever the program divides.
RDiv(a, b) ==
    IF IsNaN(a) \/ IsNaN(b) \/ (IsInf(a) /\ IsInf(b)) THEN NaN
    ELSE IF IsInf(a) THEN Inf
    ELSE IF IsInf(b) THEN Zero
    ELSE IF b.n = 0 THEN (IF a.n = 0 THEN NaN ELSE Inf)
    ELSE LET g1 == Gcd(Abs(a.n), Abs(b.n))
             g2 == Gcd(a.d, b.d)
         IN  Rat((a.n \div g1) * (b.d \div g2), (a.d \div g2) * (b.n \div g1))

RAbs(a) == [n |-> Abs(a.n), d |-> a.d]

\* a > b on float64: every comparison with NaN is False
RGt(a, b) == ~IsNaN(a) /\ ~IsNaN(b) /\ a.n * b.d > b.n * a.d

\* a <= b on float64
RLe(a, b) == ~IsNaN(a) /\ ~IsNaN(b) /\ a.n * b.d <= b.n * a.d

\* x ** k for an integer k >= 0; IEEE pow(x, 0) is 1 for every x, NaN too
RECURSIVE RPow(_, _)
RPow(x, k) == IF k = 0 THEN One ELSE RMul(x, RPow(x, k - 1))

\* A coin bias as float64 holds it: 0 and 1 are exact, a value strictly
\* between them is rounded to the nearest grid point strictly between them.
float64(x) ==
    IF ~IsFinite(x) THEN x
    ELSE IF x.n = 0 THEN Zero
    ELSE IF x.n = x.d THEN One
    ELSE LET k == (2 * x.n * Scale + x.d) \div (2 * x.d)
             c == IF k < 1 THEN 1 ELSE IF k > Scale - 1 THEN Scale - 1 ELSE k
         IN  Rat(c, Scale)

\* Python's max over the two-element array [x0, x1]: the first item is kept
\* unless a later item compares greater.
pymax(x0, x1) == IF RGt(x1, x0) THEN x1 ELSE x0

\* ------------------------------------------------------------- constants
theta_A_true == Rat(4, 5)
theta_B_true == Rat(2, 5)

\* the error threshold, epsilon = 0.001
Epsilon == Rat(1, 1000)

\* pairs (pA_init, pB_init) that two calls of np.random.rand() can return,
\* a sample of the grid in [0, 1): both zero, one zero in either order, and
\* two different values inside (0, 1)
InitialGuesses ==
    {<<Rat(g[1], Scale), Rat(g[2], Scale)>> :
        g \in {<<0, 0>>, <<0, 3>>, <<3, 0>>, <<2, Scale - 1>>}}

Experiments == 0 .. (num_exp - 1)
Restarts == 0 .. (num_restarts - 1)

\* np.zeros(len)
zeros(len) == [i \in 0 .. (len - 1) |-> Zero]

\* ------------------------------------------------------------ likelihood
\* scipy.special.comb(n, k, exact=True)
RECURSIVE comb(_, _)
comb(n, k) == IF k = 0 THEN 1 ELSE (comb(n, k - 1) * (n - k + 1)) \div k

\* comb(n, obs) * pheads**obs * (1.0 - pheads)**(n - obs)
compute_likelihood(obs, n, pheads) ==
    RMul(RMul(Rat(comb(n, obs), 1), RPow(pheads, obs)),
         RPow(RSub(One, pheads), n - obs))

\* ---------------------------------------------------------------- E step
weightA(eH, pA, pB) ==
    LET lA == compute_likelihood(eH, num_coin_toss, pA)
        lB == compute_likelihood(eH, num_coin_toss, pB)
    IN  RDiv(lA, RAdd(lA, lB))

weightB(eH, pA, pB) ==
    LET lA == compute_likelihood(eH, num_coin_toss, pA)
        lB == compute_likelihood(eH, num_coin_toss, pB)
    IN  RDiv(lB, RAdd(lA, lB))

\* row i of an expectation array: weight * np.array([eH, eT])
ExpRow(w, eH, eT) == [c \in 0 .. 1 |-> RMul(w, Rat(IF c = 0 THEN eH ELSE eT, 1))]

expectation_A(hc, tc, pA, pB) ==
    [i \in Experiments |-> ExpRow(weightA(hc[i], pA, pB), hc[i], tc[i])]

expectation_B(hc, tc, pA, pB) ==
    [i \in Experiments |-> ExpRow(weightB(hc[i], pA, pB), hc[i], tc[i])]

\* ---------------------------------------------------------------- M step
\* sum of column c over the first k rows
RECURSIVE SumCol(_, _, _)
SumCol(E, c, k) == IF k = 0 THEN Zero ELSE RAdd(SumCol(E, c, k - 1), E[k - 1][c])

\* sum of the first k elements in row-major order
RECURSIVE SumFlat(_, _)
SumFlat(E, k) ==
    IF k = 0 THEN Zero
    ELSE RAdd(SumFlat(E, k - 1), E[(k - 1) \div 2][(k - 1) % 2])

\* np.sum(E, axis = 0)[0] / np.sum(E): the reported theta
MStepTheta(E) == RDiv(SumCol(E, 0, num_exp), SumFlat(E, 2 * num_exp))

\* a slip in the M step: heads over tails instead of heads over tosses
MStepTrace_HeadsOverTails(E) ==
    RDiv(SumCol(E, 0, num_exp), SumCol(E, 1, num_exp))

\* sum(E)[0] / sum(sum(E)): the value written to the trace
MStepTrace(E) ==
    LET s == [c \in 0 .. 1 |-> SumCol(E, c, num_exp)]
    IN  RDiv(s[0], RAdd(RAdd(Zero, s[0]), s[1]))

\* a slip in the improvement: the old values of the two coins exchanged
Improvement_Crossed(a1, b1, a0, b0) == pymax(RAbs(RSub(a1, b0)), RAbs(RSub(b1, a0)))

\* max(abs(np.array([a1, b1]) - np.array([a0, b0])))
Improvement(a1, b1, a0, b0) == pymax(RAbs(RSub(a1, a0)), RAbs(RSub(b1, b0)))

\* an index numpy accepts for the array
InBounds(arr, idx) == idx \in DOMAIN arr

\* ----------------------------------------------------------------- state
VARIABLES
    head_counts,    \* heads per experiment
    coin_choice,    \* 0 for coin A, 1 for coin B, per experiment
    MLE_A, MLE_B,   \* head totals, then the MLE
    epsilon,        \* error threshold
    pc,             \* position in the notebook
    n_init,         \* restart counter
    pA_init, pB_init, pA_out, pB_out,
    pA_heads, pB_heads,   \* the trace arrays of the current restart
    j,              \* iteration counter
    improvement,
    theta_A, theta_B,
    df              \* the result table

vars == <<head_counts, coin_choice, MLE_A, MLE_B, epsilon, pc, n_init,
          pA_init, pB_init, pA_out, pB_out, pA_heads, pB_heads, j,
          improvement, theta_A, theta_B, df>>

tail_counts == [i \in Experiments |-> num_coin_toss - head_counts[i]]

\* np.count_nonzero(coin_choice)
count_nonzero(cc) == Cardinality({i \in DOMAIN cc : cc[i] # 0})

\* total heads of the experiments that used the coin c
RECURSIVE HeadTotal(_, _, _, _)
HeadTotal(hc, cc, c, k) ==
    IF k = 0 THEN 0
    ELSE HeadTotal(hc, cc, c, k - 1) + (IF cc[k - 1] = c THEN hc[k - 1] ELSE 0)

\* the coin choices of the experiments up to their order: the first k
\* experiments use coin A, the others coin B
CoinChoices ==
    {[i \in Experiments |-> IF i < k THEN 0 ELSE 1] : k \in 0 .. num_exp}

\* The state after the data generation loop (lines 268-291): any head
\* counts and coin choices, the MLE accumulators holding the head totals.
Init ==
    /\ head_counts \in [Experiments -> 0 .. num_coin_toss]
    /\ coin_choice \in CoinChoices
    /\ MLE_A = Rat(HeadTotal(head_counts, coin_choice, 0, num_exp), 1)
    /\ MLE_B = Rat(HeadTotal(head_counts, coin_choice, 1, num_exp), 1)
    /\ epsilon = Epsilon
    /\ pc = "mle"
    /\ n_init = 0
    /\ pA_init = zeros(num_restarts)
    /\ pB_init = zeros(num_restarts)
    /\ pA_out = zeros(num_restarts)
    /\ pB_out = zeros(num_restarts)
    /\ pA_heads = zeros(TraceLen)
    /\ pB_heads = zeros(TraceLen)
    /\ j = 0
    /\ improvement = Inf
    /\ theta_A = Zero
    /\ theta_B = Zero
    /\ df = <<>>

\* a division that never raises, as numpy's float64 division would behave
DivisorIsZero_Never(d) == FALSE

\* Python float / int: a zero divisor raises ZeroDivisionError
DivisorIsZero(d) == d = 0

\* lines 294-295: MLE_A / (tosses of A), then MLE_B / (tosses of B)
ComputeMLE ==
    /\ pc = "mle"
    /\ LET nB == count_nonzero(coin_choice)
           dA == (num_exp - nB) * num_coin_toss
           dB == nB * num_coin_toss
       IN  IF DivisorIsZero(dA)
           THEN /\ pc' = "ZeroDivisionError_A"
                /\ UNCHANGED <<MLE_A, MLE_B>>
           ELSE IF DivisorIsZero(dB)
           THEN /\ pc' = "ZeroDivisionError_B"
                /\ MLE_A' = RDiv(MLE_A, Rat(dA, 1))
                /\ UNCHANGED MLE_B
           ELSE /\ pc' = "for"
                /\ MLE_A' = RDiv(MLE_A, Rat(dA, 1))
                /\ MLE_B' = RDiv(MLE_B, Rat(dB, 1))
    /\ UNCHANGED <<head_counts, coin_choice, epsilon, n_init, pA_init,
                   pB_init, pA_out, pB_out, pA_heads, pB_heads, j,
                   improvement, theta_A, theta_B, df>>

\* a loop head that leaves the improvement of the run before it in place
RestartBegin_KeepsImprovement ==
    /\ pc = "for"
    /\ n_init < num_restarts
    /\ \E g \in InitialGuesses :
         /\ pA_init' = [pA_init EXCEPT ![n_init] = g[1]]
         /\ pB_init' = [pB_init EXCEPT ![n_init] = g[2]]
         /\ pA_heads' = [zeros(TraceLen) EXCEPT ![0] = g[1]]
         /\ pB_heads' = [zeros(TraceLen) EXCEPT ![0] = g[2]]
    /\ j' = 0
    /\ pc' = "while"
    /\ UNCHANGED <<head_counts, coin_choice, MLE_A, MLE_B, epsilon, n_init,
                   pA_out, pB_out, theta_A, theta_B, df, improvement>>

\* lines 302-316: the head of the restart loop
RestartBegin ==
    /\ pc = "for"
    /\ n_init < num_restarts
    /\ \E g \in InitialGuesses :
         /\ pA_init' = [pA_init EXCEPT ![n_init] = g[1]]
         /\ pB_init' = [pB_init EXCEPT ![n_init] = g[2]]
         /\ pA_heads' = [zeros(TraceLen) EXCEPT ![0] = g[1]]
         /\ pB_heads' = [zeros(TraceLen) EXCEPT ![0] = g[2]]
    /\ j' = 0
    /\ improvement' = Inf
    /\ pc' = "while"
    /\ UNCHANGED <<head_counts, coin_choice, MLE_A, MLE_B, epsilon, n_init,
                   pA_out, pB_out, theta_A, theta_B, df>>

\* lines 318-354: one pass through the body of the while loop
EMIteration ==
    /\ pc = "while"
    /\ RGt(improvement, epsilon)
    /\ \E EA \in {expectation_A(head_counts, tail_counts, pA_heads[j], pB_heads[j])},
          EB \in {expectation_B(head_counts, tail_counts, pA_heads[j], pB_heads[j])} :
         \E newA \in {float64(MStepTrace(EA))}, newB \in {float64(MStepTrace(EB))} :
           /\ theta_A' = float64(MStepTheta(EA))
           /\ theta_B' = float64(MStepTheta(EB))
           /\ IF InBounds(pA_heads, j + 1)
              THEN /\ pA_heads' = [pA_heads EXCEPT ![j + 1] = newA]
                   /\ pB_heads' = [pB_heads EXCEPT ![j + 1] = newB]
                   /\ improvement' = Improvement(newA, newB, pA_heads[j], pB_heads[j])
                   /\ j' = j + 1
                   /\ pA_out' = [pA_out EXCEPT ![n_init] = theta_A']
                   /\ pB_out' = [pB_out EXCEPT ![n_init] = theta_B']
                   /\ pc' = "while"
              ELSE /\ pc' = "IndexError"
                   /\ UNCHANGED <<pA_heads, pB_heads, improvement, j, pA_out, pB_out>>
    /\ UNCHANGED <<head_counts, coin_choice, MLE_A, MLE_B, epsilon, n_init,
                   pA_init, pB_init, df>>

\* line 318: the loop condition is false, the restart is over
WhileExit ==
    /\ pc = "while"
    /\ ~RGt(improvement, epsilon)
    /\ n_init' = n_init + 1
    /\ pc' = "for"
    /\ UNCHANGED <<head_counts, coin_choice, MLE_A, MLE_B, epsilon, pA_init,
                   pB_init, pA_out, pB_out, pA_heads, pB_heads, j,
                   improvement, theta_A, theta_B, df>>

\* np.abs(pA_out - theta_A_true) + np.abs(pB_out - theta_B_true)
acc(a, b) == RAdd(RAbs(RSub(a, theta_A_true)), RAbs(RSub(b, theta_B_true)))

\* lines 368-375: the table of the restarts with the accuracy column
MakeDf ==
    /\ pc = "for"
    /\ n_init = num_restarts
    /\ df' = [r \in Restarts |->
                [name |-> r, pA_init |-> pA_init[r], pB_init |-> pB_init[r],
                 pA_out |-> pA_out[r], pB_out |-> pB_out[r],
                 acc |-> acc(pA_out[r], pB_out[r])]]
    /\ pc' = "df"
    /\ UNCHANGED <<head_counts, coin_choice, MLE_A, MLE_B, epsilon, n_init,
                   pA_init, pB_init, pA_out, pB_out, pA_heads, pB_heads, j,
                   improvement, theta_A, theta_B>>

\* pandas sort_values: ascending, rows with a NaN key last
Sorted(t) ==
    \A p, q \in DOMAIN t :
        p < q => \/ IsNaN(t[q].acc)
                 \/ (~IsNaN(t[p].acc) /\ RLe(t[p].acc, t[q].acc))

\* the reorderings of the table that sort_values('acc') may return; the
\* order of rows with equal keys is not fixed by the default quicksort
sort_values(t) ==
    {[p \in DOMAIN t |-> t[f[p]]] :
        f \in {g \in [DOMAIN t -> DOMAIN t] :
                  \A x, y \in DOMAIN t : x # y => g[x] # g[y]}}

\* lines 405-409
SortDf ==
    /\ pc = "df"
    /\ \E s \in sort_values(df) :
         /\ Sorted(s)
         /\ df' = s
    /\ pc' = "done"
    /\ UNCHANGED <<head_counts, coin_choice, MLE_A, MLE_B, epsilon, n_init,
                   pA_init, pB_init, pA_out, pB_out, pA_heads, pB_heads, j,
                   improvement, theta_A, theta_B>>

Next ==
    \/ ComputeMLE
    \/ RestartBegin
    \/ EMIteration
    \/ WhileExit
    \/ MakeDf
    \/ SortDf

Spec == Init /\ [][Next]_vars

\* ------------------------------------------------------------ properties
\* both coins give the head count of some experiment probability zero
Degenerate(hc, pA, pB) ==
    \E i \in Experiments :
        RAdd(compute_likelihood(hc[i], num_coin_toss, pA),
             compute_likelihood(hc[i], num_coin_toss, pB)) = Zero

IsProbability(x) == IsFinite(x) /\ 0 <= x.n /\ x.n <= x.d

\* |x - y|
Dist(x, y) == RAbs(RSub(x, y))

\* expected heads and tails of a coin from its E-step weights w
RECURSIVE WeightedSum(_, _, _)
WeightedSum(w, v, k) ==
    IF k = 0 THEN Zero
    ELSE RAdd(WeightedSum(w, v, k - 1), RMul(w[k - 1], Rat(v[k - 1], 1)))

\* expHeads / (expHeads + expTails)
NewEstimate(w) ==
    LET expHeads == WeightedSum(w, head_counts, num_exp)
        expTails == WeightedSum(w, tail_counts, num_exp)
    IN  float64(RDiv(expHeads, RAdd(expHeads, expTails)))

WeightsA(pA, pB) == [i \in Experiments |-> weightA(head_counts[i], pA, pB)]
WeightsB(pA, pB) == [i \in Experiments |-> weightB(head_counts[i], pA, pB)]

\* (a, b) is mapped to itself by one E step followed by one M step
FixedPoint(a, b) ==
    /\ float64(MStepTrace(expectation_A(head_counts, tail_counts, a, b))) = a
    /\ float64(MStepTrace(expectation_B(head_counts, tail_counts, a, b))) = b

\* C1: a run never goes beyond the capped number of iterations, and a run
\* that reaches the cap with the improvement still above epsilon ends in
\* the NonConvergence outcome.
C1_CapEndsInNonConvergence ==
    /\ j < TraceLen
    /\ DOMAIN pA_heads = 0 .. (TraceLen - 1)
    /\ DOMAIN pB_heads = 0 .. (TraceLen - 1)
    /\ (j = TraceLen - 1 /\ RGt(improvement, epsilon) /\ pc # "while")
          => pc = "NonConvergence"

\* C2: once an E step has met an experiment with L_A + L_B = 0, the run is
\* in the NumericalDegeneracy outcome: it neither goes on iterating nor
\* finishes as converged.
C2_DegeneracyFails ==
    (j >= 1 /\ Degenerate(head_counts, pA_heads[j - 1], pB_heads[j - 1]))
        => pc = "NumericalDegeneracy"

\* C3: when the while loop has ended with counter j, the last two trace
\* entries differ by at most epsilon in both coordinates, every earlier
\* consecutive pair differs by more than epsilon in some coordinate, and
\* every entry is the E step and M step of the entry before it.
C3_StopsAtFirstSmallImprovement ==
    (pc \in {"for", "df", "done"} /\ j >= 1) =>
        /\ RLe(Dist(pA_heads[j], pA_heads[j - 1]), epsilon)
        /\ RLe(Dist(pB_heads[j], pB_heads[j - 1]), epsilon)
        /\ \A k \in 1 .. (j - 1) :
              \/ RGt(Dist(pA_heads[k], pA_heads[k - 1]), epsilon)
              \/ RGt(Dist(pB_heads[k], pB_heads[k - 1]), epsilon)
        /\ \A k \in 1 .. j :
              /\ pA_heads[k] = NewEstimate(WeightsA(pA_heads[k - 1], pB_heads[k - 1]))
              /\ pB_heads[k] = NewEstimate(WeightsB(pA_heads[k - 1], pB_heads[k - 1]))

\* C4: the trace entry written by an M step is expHeads / (expHeads +
\* expTails) of the coin's E-step weights, and the reported theta is that
\* same value; when the write to the trace fails the reported theta is
\* still that quotient for the current entry.
C4_MStepQuotient ==
    /\ (pc \in {"while", "for"} /\ j >= 1) =>
          \A wA \in {WeightsA(pA_heads[j - 1], pB_heads[j - 1])},
             wB \in {WeightsB(pA_heads[j - 1], pB_heads[j - 1])} :
              /\ pA_heads[j] = NewEstimate(wA)
              /\ pB_heads[j] = NewEstimate(wB)
              /\ theta_A = pA_heads[j]
              /\ theta_B = pB_heads[j]
    /\ pc = "IndexError" =>
          \A wA \in {WeightsA(pA_heads[j], pB_heads[j])},
             wB \in {WeightsB(pA_heads[j], pB_heads[j])} :
              /\ theta_A = NewEstimate(wA)
              /\ theta_B = NewEstimate(wB)

\* an M step has written two different biases strictly inside (0, 1), at
\* least one of them moved
C4_Witness ==
    /\ pc = "while"
    /\ j >= 1
    /\ IsProbability(theta_A) /\ theta_A.n # 0 /\ theta_A.n # theta_A.d
    /\ IsProbability(theta_B) /\ theta_B.n # 0 /\ theta_B.n # theta_B.d
    /\ (theta_A # pA_heads[j - 1] \/ theta_B # pB_heads[j - 1])
    /\ theta_A # theta_B
    /\ theta_A = pA_heads[j]
    /\ theta_B = pB_heads[j]

\* C5: a failing EM run leaves the remaining restarts running, and a
\* restart whose first E step is degenerate is neither the first nor the
\* last row of the sorted table.
C5_FailuresIsolated ==
    /\ pc = "IndexError" => n_init = num_restarts - 1
    /\ pc = "done" =>
          \A p \in {0, num_restarts - 1} :
              ~Degenerate(head_counts, df[p].pA_init, df[p].pB_init)

\* C6: the sorted table has one row per restart, each scored with
\* |pA_out - theta_A_true| + |pB_out - theta_B_true|, and acc does not
\* decrease from one row to the next, so the first row has the least and
\* the last row the greatest acc.
C6_SortedScores ==
    pc = "done" =>
        /\ DOMAIN df = Restarts
        /\ {df[p].name : p \in DOMAIN df} = Restarts
        /\ \A p \in DOMAIN df :
              df[p].acc = RAdd(Dist(pA_out[df[p].name], theta_A_true),
                               Dist(pB_out[df[p].name], theta_B_true))
        /\ \A p, q \in DOMAIN df : p < q => RLe(df[p].acc, df[q].acc)
        /\ \A p \in DOMAIN df :
              RLe(df[0].acc, df[p].acc) /\ RLe(df[p].acc, df[num_restarts - 1].acc)

\* C7: with no experiment for a coin the MLE ends in the division error of
\* that coin; with experiments for both coins the MLE of each coin is its
\* head total over its number of tosses.
C7_MLE ==
    LET nB == count_nonzero(coin_choice)
        nA == num_exp - nB
        hA == HeadTotal(head_counts, coin_choice, 0, num_exp)
        hB == HeadTotal(head_counts, coin_choice, 1, num_exp)
    IN  pc # "mle" =>
          /\ nA = 0 => pc = "ZeroDivisionError_A"
          /\ (nA > 0 /\ nB = 0) => pc = "ZeroDivisionError_B"
          /\ (nA > 0 /\ nB > 0) =>
                /\ pc \notin {"ZeroDivisionError_A", "ZeroDivisionError_B"}
                /\ MLE_A = Rat(hA, nA * num_coin_toss)
                /\ MLE_B = Rat(hB, nB * num_coin_toss)

\* the MLE has stopped because one coin was never selected
C7_Witness ==
    /\ pc \in {"ZeroDivisionError_A", "ZeroDivisionError_B"}
    /\ \E c \in 0 .. 1 : \A i \in Experiments : coin_choice[i] = c

\* C8: two restarts whose initial guesses are each other's mirror image end
\* with results that are each other's mirror image.
C8_MirroredResult ==
    pc \in {"df", "done"} =>
        \A r1, r2 \in Restarts :
            (pA_init[r1] = pB_init[r2] /\ pB_init[r1] = pA_init[r2]) =>
                (pA_out[r1] = pB_out[r2] /\ pB_out[r1] = pA_out[r2])

\* C9: a run started at a fixed point of the E step and M step computes a
\* first improvement of at most epsilon, ends with counter 1 and reports
\* the initial theta; it never runs into the end of the trace arrays.
C9_FixedPointStart ==
    /\ (pc = "while" /\ j >= 1
          /\ FixedPoint(pA_init[n_init], pB_init[n_init])) =>
          /\ j = 1
          /\ RLe(improvement, epsilon)
          /\ theta_A = pA_init[n_init]
          /\ theta_B = pB_init[n_init]
    /\ (pc = "for" /\ n_init >= 1
          /\ FixedPoint(pA_init[n_init - 1], pB_init[n_init - 1])) =>
          /\ j = 1
          /\ pA_out[n_init - 1] = pA_init[n_init - 1]
          /\ pB_out[n_init - 1] = pB_init[n_init - 1]
    /\ pc = "IndexError" => ~FixedPoint(pA_init[n_init], pB_init[n_init])

\* a restart begun at a fixed point with two different biases has ended
C9_Witness ==
    /\ pc = "for"
    /\ n_init >= 1
    /\ FixedPoint(pA_init[0], pB_init[0])
    /\ pA_init[0] # pB_init[0]
    /\ pA_out[0] = pA_init[0]
    /\ pB_out[0] = pB_init[0]

\* C10: an M step that follows an E step with L_A + L_B > 0 for every
\* experiment writes a probability in [0, 1] for both coins.
C10_TraceEntriesAreProbabilities ==
    \A k \in 1 .. j :
        (/\ IsProbability(pA_heads[k - 1])
         /\ IsProbability(pB_heads[k - 1])
         /\ ~Degenerate(head_counts, pA_heads[k - 1], pB_heads[k - 1]))
        => (IsProbability(pA_heads[k]) /\ IsProbability(pB_heads[k]))

\* what one step of the restart loop does to the arrays of the restarts
C11_Step ==
    /\ \A r \in Restarts :
          r # n_init =>
              /\ pA_init'[r] = pA_init[r]
              /\ pB_init'[r] = pB_init[r]
              /\ pA_out'[r] = pA_out[r]
              /\ pB_out'[r] = pB_out[r]
    /\ (pc = "for" /\ pc' = "while") =>
          /\ j' = 0
          /\ improvement' = Inf
          /\ pA_heads' = [zeros(TraceLen) EXCEPT ![0] = pA_init'[n_init]]
          /\ pB_heads' = [zeros(TraceLen) EXCEPT ![0] = pB_init'[n_init]]
    /\ (pc = "while" /\ pc' = "for") =>
          /\ j >= 1
          /\ pA_heads[0] = pA_init[n_init]
          /\ pB_heads[0] = pB_init[n_init]
          /\ \A wA \in {WeightsA(pA_init[n_init], pB_init[n_init])},
                wB \in {WeightsB(pA_init[n_init], pB_init[n_init])} :
                 /\ pA_heads[1] = NewEstimate(wA)
                 /\ pB_heads[1] = NewEstimate(wB)
          /\ pA_out[n_init] = pA_heads[j]
          /\ pB_out[n_init] = pB_heads[j]

\* C11: every restart begins with a fresh trace holding its own initial
\* guess, counter 0 and improvement infinity; it ends after at least one
\* E step and M step from that guess with pA_out/pB_out of its own index
\* equal to the last trace entry; and no step changes the pA_init,
\* pB_init, pA_out or pB_out entry of any other restart.
C11_RestartIsolation == [][C11_Step]_vars

\* the second restart has ended with its own result while the first
\* restart, begun from a different guess, keeps a different result
C11_Witness ==
    /\ pc = "for"
    /\ n_init >= 2
    /\ j >= 1
    /\ pA_out[n_init - 1] = pA_heads[j]
    /\ pB_out[n_init - 1] = pB_heads[j]
    /\ pA_heads[0] = pA_init[n_init - 1]
    /\ pB_heads[0] = pB_init[n_init - 1]
    /\ <<pA_init[0], pB_init[0]>> # <<pA_init[n_init - 1], pB_init[n_init - 1]>>
    /\ <<pA_out[0], pB_out[0]>> # <<pA_out[n_init - 1], pB_out[n_init - 1]>>
    /\ IsProbability(pA_out[0]) /\ IsProbability(pB_out[0])
    /\ IsProbability(pA_out[n_init - 1]) /\ IsProbability(pB_out[n_init - 1])

=============================================================================
